---------------------------- MODULE Spec2Model ----------------------------
(***************************************************************************)
(* TimeScore (Python version): the behavior scoring and energy engine.     *)
(*                                                                         *)
(* The program computes with Python floats; the model computes the same    *)
(* expressions over exact decimal fixed-point numbers:                     *)
(*   energy            in thousandths of a point      (EnergyUnit)         *)
(*   base score / min  in tenths                      (catalog)            *)
(*   energy cost / min in hundredths                  (catalog)            *)
(*   energy coefficient in 1/200000                   (CoeffUnit)          *)
(*   combo coefficient in 1/10000                     (ComboUnit)          *)
(*   bonus multipliers in tenths                      (BonusUnit)          *)
(*   a score           as a signed big number over ScoreOne                *)
(*   wall-clock time   in seconds                                          *)
(* A level string is the sequence of its characters, so that startswith    *)
(* and len are computed, not looked up.                                    *)
(***************************************************************************)
EXTENDS Integers, Sequences, FiniteSets, TLC

VARIABLES current_energy, recent_behaviors, beginner_period, last_record_ts,
          now, ops, call, config_cache, config_file, default_config, wishes,
          total_score

vars == <<current_energy, recent_behaviors, beginner_period, last_record_ts,
          now, ops, call, config_cache, config_file, default_config, wishes,
          total_score>>

user_data == <<current_energy, recent_behaviors, beginner_period, last_record_ts>>

\* the module globals _config_cache and DEFAULT_CONFIG, and the content of the
\* file at each path
config_state == <<config_cache, config_file, default_config>>

\* the database: the rows of the wishes table by id, and what
\* get_total_score() returns, SUM(final_score) of core_behavior
db_state == <<wishes, total_score>>

-----------------------------------------------------------------------------
(* Bounds of the model *)

\* longest recent-behavior window drawn for user_data["recent_behaviors"]
MaxRecent == 3

\* number of Energy Manager operations in one run
MaxOps == 3

\* wishes added to the database
MaxWishes == 2

-----------------------------------------------------------------------------
(* Units of the fixed-point representation *)

EnergyUnit == 10^3
CoeffUnit == 2 * 10^5
ComboUnit == 10^4
BonusUnit == 10^1
BaseUnit == 10^1

\* None for user_data["last_record_ts"]
NoneTs == -1

-----------------------------------------------------------------------------
(* Levels *)

LS == <<"S">>
LA == <<"A">>
LB == <<"B">>
LC == <<"C">>
LD == <<"D">>
LR == <<"R">>
LR1 == <<"R", "1">>
LR2 == <<"R", "2">>
LR3 == <<"R", "3">>
\* strings that are no level of the catalog
LX == <<"X">>
LR4 == <<"R", "4">>

ValidLevels == {LS, LA, LB, LC, LD, LR, LR1, LR2, LR3}
UnknownLevels == {LX, LR4}
AllLevels == ValidLevels \cup UnknownLevels

\* str.startswith("R")
StartsWithR(level) == Len(level) >= 1 /\ level[1] = "R"

-----------------------------------------------------------------------------
(* DEFAULT_CONFIG *)

\* DEFAULT_CONFIG["level_config"], without the R entry's sublevels;
\* base_score_per_min in tenths, energy_cost_per_min in hundredths
level_config ==
  [l \in {LS, LA, LB, LC, LD, LR} |->
     CASE l = LS -> [base_score_per_min |-> 18, energy_cost_per_min |-> 35]
       [] l = LA -> [base_score_per_min |-> 12, energy_cost_per_min |-> 25]
       [] l = LB -> [base_score_per_min |-> 7, energy_cost_per_min |-> 18]
       [] l = LC -> [base_score_per_min |-> -5, energy_cost_per_min |-> 10]
       [] l = LD -> [base_score_per_min |-> -10, energy_cost_per_min |-> 15]
       [] l = LR -> [base_score_per_min |-> 0, energy_cost_per_min |-> 0]]

\* DEFAULT_CONFIG["level_config"]["R"]["sublevels"]
sublevels ==
  [l \in {LR1, LR2, LR3} |->
     CASE l = LR1 -> [base_score_per_min |-> 2, energy_cost_per_min |-> -10]
       [] l = LR2 -> [base_score_per_min |-> 3, energy_cost_per_min |-> -20]
       [] l = LR3 -> [base_score_per_min |-> 4, energy_cost_per_min |-> -30]]

\* DEFAULT_CONFIG["global_config"]
energy_max == 120 * EnergyUnit
energy_low_threshold == 30 * EnergyUnit
energy_zero_threshold == 0 * EnergyUnit
\* 0.02 energy per minute = 20 thousandths per 60 seconds
passive_recovery_rate == 20
cross_day_recovery_default == 50 * EnergyUnit
\* 1.3, in tenths
max_combo_bonus == 13
\* 1.1, in tenths
rebound_bonus == 11
start_bonus_duration == 5
\* 1.2, in tenths
start_bonus_score == 12
\* 1.2, in tenths
novice_bonus == 12
\* 0.8, in tenths
start_bonus_energy == 8
\* 1.2, in tenths
low_energy_recovery_bonus == 12

-----------------------------------------------------------------------------
(* Exact numbers for scores: sign and magnitude, the magnitude a sequence  *)
(* of base-1000 limbs, least significant first, without leading zeros.     *)

LimbBase == 10^3

Abs(i) == IF i < 0 THEN -i ELSE i

Sign(i) == IF i < 0 THEN -1 ELSE IF i = 0 THEN 0 ELSE 1

RECURSIVE Limbs(_)
Limbs(n) == IF n = 0 THEN <<>> ELSE <<n % LimbBase>> \o Limbs(n \div LimbBase)

RECURSIVE MulLimbs(_, _, _)
MulLimbs(m, f, carry) ==
  IF m = <<>>
  THEN Limbs(carry)
  ELSE LET t == Head(m) * f + carry
       IN <<t % LimbBase>> \o MulLimbs(Tail(m), f, t \div LimbBase)

BigZero == [sg |-> 0, mag |-> <<>>]

Big(i) == [sg |-> Sign(i), mag |-> Limbs(Abs(i))]

\* x * k for a big x and an integer k with |k| < 2000000
BigMul(x, k) ==
  IF x.sg = 0 \/ k = 0
  THEN BigZero
  ELSE [sg |-> x.sg * Sign(k), mag |-> MulLimbs(x.mag, Abs(k), 0)]

\* the score 1.0: tenths * CoeffUnit * ComboUnit * tenths * tenths
ScoreOne == BigMul(BigMul(Big(BaseUnit * BonusUnit * BonusUnit), CoeffUnit), ComboUnit)

-----------------------------------------------------------------------------
(* ScoringCalculator *)

\* the sublevel _infer_r_sublevel infers from the mood
MoodTier(mood) == IF mood <= 2 THEN LR1 ELSE IF mood = 3 THEN LR2 ELSE LR3

\* the sublevel _infer_r_sublevel infers from the duration
DurationTier(duration) ==
  IF duration < 15 THEN LR1
  ELSE IF 15 <= duration /\ duration <= 30 THEN LR2
  ELSE LR3

\* a slip: the duration adjustment is left out
TierBeforeContext_MoodWins(duration, mood) == MoodTier(mood)

\* inferred_sublevel of _infer_r_sublevel before the context rule: the
\* mood-based value is assigned first and then overwritten in every branch
\* of the duration rule
TierBeforeContext(duration, mood) ==
  LET by_mood == MoodTier(mood)
      by_duration == DurationTier(duration)
  IN by_duration

\* a slip: any high-exertion behavior of the window counts
PrecededByHighExertion_Any(recent) ==
  \E i \in 1..Len(recent) : recent[i] \in {LS, LA}

\* the context test of _infer_r_sublevel: recent_behaviors[-1] is S or A
PrecededByHighExertion(recent) ==
  Len(recent) > 0 /\ recent[Len(recent)] \in {LS, LA}

\* a slip: the context escalation is applied to a given sublevel as well
InferRSublevel_Escalating(level, duration, mood, recent) ==
  LET inferred_sublevel == IF Len(level) > 1 THEN level
                           ELSE TierBeforeContext(duration, mood)
  IN IF PrecededByHighExertion(recent)
     THEN (IF inferred_sublevel = LR1 THEN LR2
           ELSE IF inferred_sublevel = LR2 THEN LR3
           ELSE inferred_sublevel)
     ELSE inferred_sublevel

\* _infer_r_sublevel(level, duration, mood) on user_data["recent_behaviors"] = recent
InferRSublevel(level, duration, mood, recent) ==
  IF Len(level) > 1
  THEN level
  ELSE LET inferred_sublevel == TierBeforeContext(duration, mood)
       IN IF PrecededByHighExertion(recent)
          THEN (IF inferred_sublevel = LR1 THEN LR2
                ELSE IF inferred_sublevel = LR2 THEN LR3
                ELSE inferred_sublevel)
          ELSE inferred_sublevel

\* get_behavior_info: the catalog entry, or a KeyError
BehaviorInfo(level, duration, mood, recent) ==
  IF StartsWithR(level)
  THEN LET r_level == InferRSublevel(level, duration, mood, recent)
       IN IF r_level \in DOMAIN sublevels
          THEN [raised |-> FALSE,
                base_score_per_min |-> sublevels[r_level].base_score_per_min,
                energy_cost_per_min |-> sublevels[r_level].energy_cost_per_min,
                inferred_sublevel |-> r_level]
          ELSE [raised |-> TRUE]
  ELSE IF level \in DOMAIN level_config
       THEN [raised |-> FALSE,
             base_score_per_min |-> level_config[level].base_score_per_min,
             energy_cost_per_min |-> level_config[level].energy_cost_per_min]
       ELSE [raised |-> TRUE]

\* a slip: the breakpoint 40 falls into the upper band
EnergyCoefficient_Inclusive(energy) ==
  IF energy > 70 * EnergyUnit
  THEN CoeffUnit + (energy - 70 * EnergyUnit) * (CoeffUnit \div (100 * EnergyUnit))
  ELSE IF energy >= 40 * EnergyUnit
       THEN (85 * CoeffUnit) \div 100
            + (energy - 40 * EnergyUnit) * ((5 * CoeffUnit) \div (1000 * EnergyUnit))
       ELSE (7 * CoeffUnit) \div 10

\* _calculate_energy_coefficient, in CoeffUnit
EnergyCoefficient(energy) ==
  IF energy > 70 * EnergyUnit
  THEN CoeffUnit + (energy - 70 * EnergyUnit) * (CoeffUnit \div (100 * EnergyUnit))
  ELSE IF energy > 40 * EnergyUnit
       THEN (85 * CoeffUnit) \div 100
            + (energy - 40 * EnergyUnit) * ((5 * CoeffUnit) \div (1000 * EnergyUnit))
       ELSE (7 * CoeffUnit) \div 10

IsPositive(level) == level \in {LS, LA, LB}

\* a slip: only the unbroken run of positive behaviors at the end counts
RECURSIVE PositiveRecent_Streak(_)
PositiveRecent_Streak(recent) ==
  IF recent = <<>> \/ ~IsPositive(recent[Len(recent)])
  THEN <<>>
  ELSE Append(PositiveRecent_Streak(SubSeq(recent, 1, Len(recent) - 1)),
              recent[Len(recent)])

\* positive_recent of _calculate_combo_result
PositiveRecent(recent) == SelectSeq(recent, IsPositive)

\* the count -> coefficient table of _calculate_combo_result, in tenths
ComboBase(combo_count) ==
  IF combo_count = 0 THEN 10
  ELSE IF combo_count = 1 THEN 11
  ELSE IF combo_count = 2 THEN 12
  ELSE max_combo_bonus

\* a slip: a negative behavior anywhere in the window counts as the break
IsNegativeBreak_Anywhere(recent) ==
  \E i \in 1..Len(recent) : recent[i] \in {LC, LD}

IsNegativeBreak(recent) == Len(recent) > 0 /\ recent[Len(recent)] \in {LC, LD}

\* a slip: one positive behavior of the current level is enough
IsSameField_Some(level, recent) ==
  LET positive_recent == PositiveRecent(recent)
  IN Len(positive_recent) > 0
     /\ \E i \in 1..Len(positive_recent) : positive_recent[i] = level

IsSameField(level, recent) ==
  LET positive_recent == PositiveRecent(recent)
  IN Len(positive_recent) > 0
     /\ \A i \in 1..Len(positive_recent) : positive_recent[i] = level

\* _calculate_combo_result(level)["coefficient"], in ComboUnit
ComboCoefficient(level, recent) ==
  LET combo_count == Len(PositiveRecent(recent))
      c0 == ComboBase(combo_count) * (ComboUnit \div 10)
      c1 == IF IsPositive(level) /\ IsNegativeBreak(recent)
            THEN (c0 * rebound_bonus) \div 10
            ELSE c0
  IN IF IsSameField(level, recent) /\ combo_count >= 1
     THEN (c1 * 115) \div 100
     ELSE c1

\* a slip: the bonus ends before the threshold
StartBonusScore_Strict(duration) ==
  IF duration < start_bonus_duration THEN start_bonus_score ELSE BonusUnit

\* start_bonus_score of calculate_score, in tenths
StartBonusScore(duration) ==
  IF duration <= start_bonus_duration THEN start_bonus_score ELSE BonusUnit

\* novice_bonus of calculate_score, in tenths
NoviceBonus(beginner) == IF beginner THEN novice_bonus ELSE BonusUnit

\* a slip: the gate misses the threshold itself
ZeroScoreGate_Strict(energy) == energy < energy_zero_threshold

\* the zero-score gate of calculate_score
ZeroScoreGate(energy) == energy <= energy_zero_threshold

\* calculate_score(behavior) on user_data: a score over ScoreOne, or a KeyError
CalculateScoreResult(level, duration, mood, energy, recent, beginner) ==
  IF ZeroScoreGate(energy)
  THEN [raised |-> FALSE, value |-> BigZero]
  ELSE LET behavior_info == BehaviorInfo(level, duration, mood, recent)
       IN IF behavior_info.raised
          THEN [raised |-> TRUE, value |-> BigZero]
          ELSE LET base_score == behavior_info.base_score_per_min * duration
                   energy_coeff == EnergyCoefficient(energy)
                   combo_coeff == ComboCoefficient(level, recent)
                   dynamic_coeff == BigMul(Big(energy_coeff), combo_coeff)
               IN [raised |-> FALSE,
                   value |-> BigMul(BigMul(BigMul(dynamic_coeff, base_score),
                                           StartBonusScore(duration)),
                                    NoviceBonus(beginner))]

\* a slip: the bonus also applies at the threshold itself
LowEnergyRecovery_Inclusive(energy, energy_cost_per_min) ==
  energy <= energy_low_threshold /\ energy_cost_per_min < 0

\* the low-energy recovery test of calculate_energy_cost
LowEnergyRecovery(energy, energy_cost_per_min) ==
  energy < energy_low_threshold /\ energy_cost_per_min < 0

\* calculate_energy_cost(behavior) on user_data: (final_energy_cost,
\* is_recovery) with the cost in ten-thousandths, or a KeyError
\* a slip: at least one minute is charged
EnergyCostResult_MinuteMinimum(level, duration, mood, energy, recent) ==
  LET behavior_info == BehaviorInfo(level, duration, mood, recent)
      minutes == IF duration < 1 THEN 1 ELSE duration
  IN IF behavior_info.raised
     THEN [raised |-> TRUE, value |-> 0, is_recovery |-> FALSE]
     ELSE [raised |-> FALSE,
           value |-> behavior_info.energy_cost_per_min * minutes
                       * start_bonus_energy * BonusUnit,
           is_recovery |-> behavior_info.energy_cost_per_min < 0]

EnergyCostResult(level, duration, mood, energy, recent) ==
  LET behavior_info == BehaviorInfo(level, duration, mood, recent)
  IN IF behavior_info.raised
     THEN [raised |-> TRUE, value |-> 0, is_recovery |-> FALSE]
     ELSE LET bonus == IF duration <= start_bonus_duration
                       THEN start_bonus_energy
                       ELSE BonusUnit
              energy_cost_per_min == behavior_info.energy_cost_per_min
              final_energy_cost == energy_cost_per_min * duration * bonus
          IN [raised |-> FALSE,
              value |-> IF LowEnergyRecovery(energy, energy_cost_per_min)
                        THEN final_energy_cost * low_energy_recovery_bonus
                        ELSE final_energy_cost * BonusUnit,
              is_recovery |-> energy_cost_per_min < 0]

\* a slip: the decay starts one repetition late
IsRepeated_Late(same_behavior_count) == same_behavior_count > 3

\* the repetition test of apply_balance_mechanisms
IsRepeated(same_behavior_count) == same_behavior_count >= 3

\* a slip: the damping starts one recovery behavior late
IsRFarming_Late(level, recent) ==
  StartsWithR(level) /\ Len(SelectSeq(recent, StartsWithR)) > 2

\* the anti-R-farming test of apply_balance_mechanisms
IsRFarming(level, recent) ==
  LET r_count == Len(SelectSeq(recent, StartsWithR))
  IN StartsWithR(level) /\ r_count >= 2

\* apply_balance_mechanisms: final_score in tenths, the result in
\* ten-thousandths (each of the three multipliers has one decimal)
BalanceResult(final_score, same_behavior_count, is_short_frequency, level, recent) ==
  LET s0 == final_score * 1000
      s1 == IF IsRepeated(same_behavior_count) THEN (s0 * 8) \div 10 ELSE s0
      s2 == IF is_short_frequency THEN (s1 * 7) \div 10 ELSE s1
  IN IF IsRFarming(level, recent) THEN (s2 * 8) \div 10 ELSE s2

-----------------------------------------------------------------------------
(* EnergyManager *)

\* "not user_data['last_record_ts']": None and 0 are both false
NoTimestamp(ts) == ts = NoneTs \/ ts = 0

\* a slip: the floor at 0 is left out
UpdateEnergyResult_NoFloor(energy, energy_cost) ==
  LET new_energy == energy - energy_cost
  IN IF new_energy < energy_max THEN new_energy ELSE energy_max

\* a slip: the cost is added instead of subtracted
UpdateEnergyResult_Added(energy, energy_cost) ==
  LET new_energy == energy + energy_cost
      capped == IF new_energy < energy_max THEN new_energy ELSE energy_max
  IN IF capped > 0 THEN capped ELSE 0

\* the value update_energy(energy_cost) stores and returns
UpdateEnergyResult(energy, energy_cost) ==
  LET new_energy == energy - energy_cost
      capped == IF new_energy < energy_max THEN new_energy ELSE energy_max
  IN IF capped > 0 THEN capped ELSE 0

\* a slip: only the time beyond the 30 idle minutes is credited
AutoRecovery_Excess(ts, t) ==
  IF NoTimestamp(ts)
  THEN 0
  ELSE IF t - ts <= 30 * 60
       THEN 0
       ELSE ((t - ts - 30 * 60) * passive_recovery_rate) \div 60

\* calculate_auto_recovery at wall-clock time t
AutoRecovery(ts, t) ==
  IF NoTimestamp(ts)
  THEN 0
  ELSE IF t - ts <= 30 * 60
       THEN 0
       ELSE ((t - ts) * passive_recovery_rate) \div 60

\* a slip: the recovery is passed on as a cost
ApplyAutoRecoveryResult_AsCost(energy, ts, t) ==
  LET recovery == AutoRecovery(ts, t)
  IN IF recovery > 0 THEN UpdateEnergyResult(energy, recovery) ELSE energy

\* the value apply_auto_recovery stores and returns
ApplyAutoRecoveryResult(energy, ts, t) ==
  LET recovery == AutoRecovery(ts, t)
  IN IF recovery > 0 THEN UpdateEnergyResult(energy, -recovery) ELSE energy

\* sleep_recovery of reset_daily_energy
sleep_recovery == 56 * EnergyUnit

\* a slip: the default is added on top of the sleep recovery
ResetDailyEnergyResult_Both(energy, ts) ==
  LET new_day_energy == IF NoTimestamp(ts)
                        THEN energy + sleep_recovery + cross_day_recovery_default
                        ELSE energy + sleep_recovery
  IN IF new_day_energy < energy_max THEN new_day_energy ELSE energy_max

\* the value reset_daily_energy stores and returns
ResetDailyEnergyResult(energy, ts) ==
  LET new_day_energy == IF NoTimestamp(ts)
                        THEN energy + cross_day_recovery_default
                        ELSE energy + sleep_recovery
  IN IF new_day_energy < energy_max THEN new_day_energy ELSE energy_max

\* a slip: the lowest band starts below 30
EnergyStatus_Inclusive(energy) ==
  IF energy > 90 * EnergyUnit THEN "abundant"
  ELSE IF energy > 70 * EnergyUnit THEN "good"
  ELSE IF energy > 50 * EnergyUnit THEN "fair"
  ELSE IF energy >= 30 * EnergyUnit THEN "low"
  ELSE "exhausted"

\* get_energy_status; the five labels are, in the source's order, jingli
\* chongpei, jingli lianghao, jingli yiban, jingli buzu and jingli kujie
EnergyStatus(energy) ==
  IF energy > 90 * EnergyUnit THEN "abundant"
  ELSE IF energy > 70 * EnergyUnit THEN "good"
  ELSE IF energy > 50 * EnergyUnit THEN "fair"
  ELSE IF energy > 30 * EnergyUnit THEN "low"
  ELSE "exhausted"

-----------------------------------------------------------------------------
(* Configuration: utils/config.py *)

\* DEFAULT_CONFIG["mood_config"]: the coefficient of each mood, in hundredths
mood_config ==
  [m \in 1..5 |->
     CASE m = 1 -> 70 [] m = 2 -> 85 [] m = 3 -> 100 [] m = 4 -> 120 [] m = 5 -> 140]

\* DEFAULT_CONFIG["time_period_config"]: the coefficient of each period, in
\* tenths
time_period_config ==
  [golden |-> 13, silver |-> 11, standard |-> 10, fatigue |-> 8, rest |-> 5]

\* DEFAULT_CONFIG["global_config"]; rates and coefficients in the units above,
\* the remaining ones in tenths
global_config ==
  [per_time |-> 1,
   energy_max |-> energy_max,
   energy_low_threshold |-> energy_low_threshold,
   energy_zero_threshold |-> energy_zero_threshold,
   low_energy_positive_coeff |-> 9,
   low_energy_recovery_bonus |-> low_energy_recovery_bonus,
   passive_recovery_rate |-> passive_recovery_rate,
   no_behavior_recovery_rate |-> 15,
   cross_day_recovery_default |-> cross_day_recovery_default,
   b_level_recovery_percent |-> 3,
   max_combo_bonus |-> max_combo_bonus,
   rebound_bonus |-> rebound_bonus,
   start_bonus_duration |-> start_bonus_duration,
   start_bonus_score |-> start_bonus_score,
   start_bonus_energy |-> start_bonus_energy,
   beginner_period_days |-> 7,
   novice_bonus |-> novice_bonus,
   enable_time_period_coeff |-> FALSE,
   enable_lucky_coeff |-> FALSE,
   enable_mood_coeff |-> FALSE]

DEFAULT_CONFIG ==
  [level_config |-> [levels |-> level_config, sublevels |-> sublevels],
   mood_config |-> mood_config,
   global_config |-> global_config,
   time_period_config |-> time_period_config]

\* _config_cache: None, or the configuration of the first successful load
NotLoaded == [loaded |-> FALSE]

Loaded(config) == [loaded |-> TRUE, config |-> config]

\* What open() and json.load find at config_path:
\*   absent       no such file                       FileNotFoundError
\*   malformed    text that is not JSON              json.JSONDecodeError
\*   undecodable  bytes that are not UTF-8 text      UnicodeDecodeError
\*   scalar       the JSON text of a number          (json.load returns an int)
\*   object       the JSON text of an object         (json.load returns a dict)
AbsentFile == [kind |-> "absent"]

MalformedFile == [kind |-> "malformed"]

UndecodableFile == [kind |-> "undecodable"]

ScalarFile == [kind |-> "scalar"]

ObjectFile(value) == [kind |-> "object", value |-> value]

\* merged_config = DEFAULT_CONFIG.copy(); merged_config.update(config): every
\* top-level key of config replaces the whole entry of the copy
Merged(defaults, config) ==
  [key \in DOMAIN defaults \cup DOMAIN config |->
     IF key \in DOMAIN config THEN config[key] ELSE defaults[key]]

\* load_config(): the configuration returned or an exception, and the cache
\* afterwards
\* (defaults is the value of the global DEFAULT_CONFIG, which is only read)
LoadConfigResult(cache, file, defaults) ==
  IF cache.loaded
  THEN [raised |-> FALSE, config |-> cache.config, cache |-> cache,
        defaults |-> defaults]
  ELSE CASE file.kind \in {"absent", "malformed"}
              -> LET merged_config == Merged(defaults, defaults)
                 IN [raised |-> FALSE, config |-> merged_config,
                     cache |-> Loaded(merged_config), defaults |-> defaults]
         [] file.kind = "object"
              -> LET merged_config == Merged(defaults, file.value)
                 IN [raised |-> FALSE, config |-> merged_config,
                     cache |-> Loaded(merged_config), defaults |-> defaults]
         [] file.kind \in {"undecodable", "scalar"}
              -> [raised |-> TRUE, cache |-> cache, defaults |-> defaults]

\* get_config(key): load_config().get(key, None)
GetConfigResult(cache, file, defaults, key) ==
  LET loaded == LoadConfigResult(cache, file, defaults)
  IN IF loaded.raised
     THEN [raised |-> TRUE]
     ELSE IF key \in DOMAIN loaded.config
          THEN [raised |-> FALSE, found |-> TRUE, value |-> loaded.config[key]]
          ELSE [raised |-> FALSE, found |-> FALSE]

-----------------------------------------------------------------------------
(* Wishes: models/wish.py, redeem/exchange.py, db/sqlite.py *)

\* ExchangeSystem.MIN_WISH_COST
MIN_WISH_COST == 100

\* a progress value a / b, kept as the fraction
Ratio(a, b) == [num |-> a, den |-> b]

\* Wish(name, cost, created_at) as add_wish inserts it
NewWish(cost, t) ==
  [cost |-> cost, status |-> "pending", progress |-> Ratio(0, 1),
   created_at |-> t, redeemed_at |-> NoneTs]

\* get_pending_wishes(): the ids of the rows with status 'pending'
PendingWishes(rows) == {id \in DOMAIN rows : rows[id].status = "pending"}

\* update_all_wishes_progress(total): progress = total / cost on pending rows
UpdateAllWishesProgress(rows, total) ==
  [id \in DOMAIN rows |->
     IF rows[id].status = "pending"
     THEN [rows[id] EXCEPT !.progress = Ratio(total, rows[id].cost)]
     ELSE rows[id]]

\* SQLiteDB.redeem_wish(wish_id) at time t: UPDATE ... WHERE id = wish_id
RedeemRow(rows, wish_id, t) ==
  [rows EXCEPT ![wish_id].status = "redeemed", ![wish_id].redeemed_at = t]

\* ExchangeSystem._redeem_wish with the answers wish_id (0 = back, else the
\* id of an existing row) and confirm, at time t: the rows afterwards and
\* how the dialogue ended
RedeemWishResult(rows, total, wish_id, confirm, t) ==
  IF PendingWishes(rows) = {}
  THEN [rows |-> rows, outcome |-> "no_pending"]
  ELSE LET shown == UpdateAllWishesProgress(rows, total)
       IN IF wish_id = 0
          THEN [rows |-> shown, outcome |-> "back"]
          ELSE IF total < shown[wish_id].cost
          THEN [rows |-> shown, outcome |-> "insufficient"]
          ELSE IF ~confirm
          THEN [rows |-> shown, outcome |-> "cancelled"]
          ELSE [rows |-> RedeemRow(shown, wish_id, t), outcome |-> "redeemed"]

-----------------------------------------------------------------------------
(* Inputs *)

\* levels that appear in the recent-behavior window
RecentLevels == {LS, LA, LB, LC, LD, LR2}

\* levels in the window of a user whose behavior is scored
ScoreRecentLevels == {LS, LB, LC, LR}

RECURSIVE SeqsUpTo(_, _)
SeqsUpTo(S, n) ==
  IF n = 0
  THEN {<<>>}
  ELSE LET shorter == SeqsUpTo(S, n - 1)
       IN shorter \cup {Append(w, x) : w \in shorter, x \in S}

Windows == SeqsUpTo(RecentLevels, MaxRecent)

ScoreWindows == SeqsUpTo(ScoreRecentLevels, MaxRecent)

Durations == {10, 14, 15, 20, 30, 31, 40}

ScoreDurations == {0, 5, 6, 10, 15, 31}

Moods == 1..5

ScoreMoods == {1, 5}

\* energies of the user a behavior is scored for, in thousandths
ScoreEnergies == {0, 25500, 55160, 80000, 120000}

\* energies the energy coefficient is computed for: every half point of
\* [0, energy_max], and the thousandths next to the breakpoints
CoeffEnergies ==
  {e * (EnergyUnit \div 2) : e \in 0..240}
    \cup {39999, 40001, 69999, 70001}

\* energies of the user an energy cost is computed for, in thousandths
CostEnergies == {0, 25500, 29999, 30000, 55160, 120000}

\* energy_cost arguments of update_energy, in thousandths
Costs == {-200000, -14400, -288, 0, 840, 35000, 200000}

\* final_score arguments of apply_balance_mechanisms, in tenths
BalanceScores == {-500, 1000}

\* same_behavior_count arguments of apply_balance_mechanisms
RepeatCounts == {0, 2, 3, 4}

\* wall-clock time at the start of a run and the later instants at which
\* the program is called, in seconds
StartTime == 1000 * 60

Instants == {StartTime + 30 * 60, StartTime + 30 * 60 + 30}

\* a configuration object that sets nothing
NoOverrides == [key \in {} |-> 0]

\* a configuration object whose global_config section sets only energy_max
OnlyEnergyMax(value) == [global_config |-> [energy_max |-> value]]

\* the objects a configuration file holds or save_config is given; their keys
\* are strings and their values integers, which json.dump and json.load
\* return unchanged
FileObjects ==
  {NoOverrides, OnlyEnergyMax(100 * EnergyUnit), OnlyEnergyMax(-5 * EnergyUnit)}

ConfigFiles ==
  {AbsentFile, MalformedFile, UndecodableFile, ScalarFile}
    \cup {ObjectFile(value) : value \in FileObjects}

ConfigKeys == {"global_config", "level_config", "no_such_key"}

\* costs typed for a new wish, the minimum included
WishCosts == {MIN_WISH_COST, MIN_WISH_COST + 50}

\* SUM(final_score) of the behaviors in the database
TotalScores == {0, 100, 250}

\* the default config_path and another one
DefaultPath == "config.json"

ConfigPaths == {DefaultPath, "other.json"}

-----------------------------------------------------------------------------
(* The state machine *)

InitUser(energies, windows, beginners, timestamps) ==
  /\ current_energy \in energies
  /\ recent_behaviors \in windows
  /\ beginner_period \in beginners
  /\ last_record_ts \in timestamps
  /\ now = StartTime
  /\ ops = 0
  /\ call = [op |-> "init"]
  /\ config_file = [config_path \in ConfigPaths |-> AbsentFile]
  /\ config_cache = Loaded(DEFAULT_CONFIG)
  /\ default_config = DEFAULT_CONFIG
  /\ wishes = <<>>
  /\ total_score = 0

\* no method of the calculator has been called on this user_data yet
Idle == call.op = "init"

\* a slip: scoring also records the behavior in the recent window
CalculateScore_Recording ==
  \E level \in AllLevels, duration \in ScoreDurations, mood \in ScoreMoods :
    /\ Idle
    /\ call' = [op |-> "calculate_score", level |-> level, duration |-> duration,
                mood |-> mood,
                result |-> CalculateScoreResult(level, duration, mood, current_energy,
                                               recent_behaviors, beginner_period)]
    /\ recent_behaviors' = <<level>>
    /\ UNCHANGED <<current_energy, beginner_period, last_record_ts, now, ops, config_state, db_state>>

\* ScoringCalculator(user_data).calculate_score(behavior)
CalculateScore ==
  \E level \in AllLevels, duration \in ScoreDurations, mood \in ScoreMoods :
    /\ Idle
    /\ call' = [op |-> "calculate_score", level |-> level, duration |-> duration,
                mood |-> mood,
                result |-> CalculateScoreResult(level, duration, mood, current_energy,
                                               recent_behaviors, beginner_period)]
    /\ UNCHANGED <<user_data, now, ops, config_state, db_state>>

\* ScoringCalculator(user_data).calculate_energy_cost(behavior)
CalculateEnergyCost ==
  \E level \in AllLevels, duration \in ScoreDurations, mood \in ScoreMoods :
    /\ Idle
    /\ call' = [op |-> "calculate_energy_cost", level |-> level,
                duration |-> duration, mood |-> mood,
                result |-> EnergyCostResult(level, duration, mood, current_energy,
                                            recent_behaviors)]
    /\ UNCHANGED <<user_data, now, ops, config_state, db_state>>

\* ScoringCalculator(user_data).get_behavior_info(level, duration, mood)
GetBehaviorInfo ==
  \E level \in AllLevels, duration \in Durations, mood \in Moods :
    /\ Idle
    /\ call' = [op |-> "get_behavior_info", level |-> level, duration |-> duration,
                mood |-> mood,
                result |-> BehaviorInfo(level, duration, mood, recent_behaviors)]
    /\ UNCHANGED <<user_data, now, ops, config_state, db_state>>

\* ScoringCalculator(user_data)._calculate_energy_coefficient()
CalculateEnergyCoefficient ==
  /\ Idle
  /\ call' = [op |-> "_calculate_energy_coefficient",
              result |-> EnergyCoefficient(current_energy)]
  /\ UNCHANGED <<user_data, now, ops, config_state, db_state>>

\* ScoringCalculator(user_data)._calculate_combo_coefficient(level)
CalculateComboCoefficient ==
  \E level \in AllLevels :
    /\ Idle
    /\ call' = [op |-> "_calculate_combo_coefficient", level |-> level,
                result |-> ComboCoefficient(level, recent_behaviors)]
    /\ UNCHANGED <<user_data, now, ops, config_state, db_state>>

\* ScoringCalculator(user_data).apply_balance_mechanisms(final_score,
\*   same_behavior_count, is_short_frequency, level)
ApplyBalanceMechanisms ==
  \E final_score \in BalanceScores, same_behavior_count \in RepeatCounts,
     is_short_frequency \in BOOLEAN, level \in AllLevels :
    /\ Idle
    /\ call' = [op |-> "apply_balance_mechanisms", final_score |-> final_score,
                same_behavior_count |-> same_behavior_count,
                is_short_frequency |-> is_short_frequency, level |-> level,
                result |-> BalanceResult(final_score, same_behavior_count,
                                         is_short_frequency, level, recent_behaviors)]
    /\ UNCHANGED <<user_data, now, ops, config_state, db_state>>

\* EnergyManager(user_data).update_energy(final_energy_cost) with the cost
\* that calculate_energy_cost has just returned (ten-thousandths to
\* thousandths)
ApplyEnergyCost ==
  /\ call.op = "calculate_energy_cost"
  /\ ~call.result.raised
  /\ LET energy_cost == call.result.value \div BonusUnit
     IN /\ current_energy' = UpdateEnergyResult(current_energy, energy_cost)
        /\ call' = [op |-> "update_energy", energy_cost |-> energy_cost,
                    before |-> current_energy, result |-> current_energy',
                    level |-> call.level, duration |-> call.duration]
  /\ UNCHANGED <<recent_behaviors, beginner_period, last_record_ts, now, ops,
                 config_state, db_state>>

\* EnergyManager(user_data).update_energy(energy_cost)
UpdateEnergy ==
  \E energy_cost \in Costs :
    /\ ops < MaxOps
    /\ current_energy' = UpdateEnergyResult(current_energy, energy_cost)
    /\ call' = [op |-> "update_energy", energy_cost |-> energy_cost,
                before |-> current_energy, result |-> current_energy']
    /\ ops' = ops + 1
    /\ UNCHANGED <<recent_behaviors, beginner_period, last_record_ts, now, config_state, db_state>>

\* EnergyManager(user_data).calculate_auto_recovery()
CalculateAutoRecovery ==
  /\ call' = [op |-> "calculate_auto_recovery", at |-> now,
              result |-> AutoRecovery(last_record_ts, now)]
  /\ UNCHANGED <<user_data, now, ops, config_state, db_state>>

\* EnergyManager(user_data).get_energy_status()
GetEnergyStatus ==
  /\ call' = [op |-> "get_energy_status", result |-> EnergyStatus(current_energy)]
  /\ UNCHANGED <<user_data, now, ops, config_state, db_state>>

\* EnergyManager(user_data).apply_auto_recovery()
ApplyAutoRecovery ==
  /\ ops < MaxOps
  /\ current_energy' = ApplyAutoRecoveryResult(current_energy, last_record_ts, now)
  /\ call' = [op |-> "apply_auto_recovery", before |-> current_energy, at |-> now,
              result |-> current_energy',
              \* the energy before the first of the calls made in a row
              run_start |-> IF call.op = "apply_auto_recovery"
                            THEN call.run_start
                            ELSE current_energy]
  /\ ops' = ops + 1
  /\ UNCHANGED <<recent_behaviors, beginner_period, last_record_ts, now, config_state, db_state>>

\* EnergyManager(user_data).reset_daily_energy()
ResetDailyEnergy ==
  /\ ops < MaxOps
  /\ current_energy' = ResetDailyEnergyResult(current_energy, last_record_ts)
  /\ call' = [op |-> "reset_daily_energy", before |-> current_energy,
              result |-> current_energy']
  /\ ops' = ops + 1
  /\ UNCHANGED <<recent_behaviors, beginner_period, last_record_ts, now, config_state, db_state>>

\* datetime.now() moves on between two calls
Tick ==
  \E later \in Instants :
    /\ later > now
    /\ now' = later
    /\ UNCHANGED <<user_data, ops, call, config_state, db_state>>

\* load_config(config_path)
LoadConfig ==
  \E config_path \in ConfigPaths :
    LET loaded == LoadConfigResult(config_cache, config_file[config_path],
                                   default_config)
    IN /\ call' = [op |-> "load_config", config_path |-> config_path,
                   file |-> config_file[config_path],
                   cached |-> config_cache.loaded,
                   result |-> IF loaded.raised
                              THEN [raised |-> TRUE]
                              ELSE [raised |-> FALSE, config |-> loaded.config]]
       /\ config_cache' = loaded.cache
       /\ default_config' = loaded.defaults
       /\ UNCHANGED <<user_data, now, ops, config_file, db_state>>

\* get_config(key): load_config() with the default path
GetConfig ==
  \E key \in ConfigKeys :
    LET loaded == LoadConfigResult(config_cache, config_file[DefaultPath],
                                   default_config)
    IN /\ call' = [op |-> "get_config", key |-> key,
                   file |-> config_file[DefaultPath],
                   cached |-> config_cache.loaded,
                   result |-> GetConfigResult(config_cache,
                                              config_file[DefaultPath],
                                              default_config, key)]
       /\ config_cache' = loaded.cache
       /\ default_config' = loaded.defaults
       /\ UNCHANGED <<user_data, now, ops, config_file, db_state>>

\* save_config(config, config_path): True and the file rewritten, or False
\* when open() fails, which leaves the file as it was
SaveConfig ==
  \E config \in FileObjects, config_path \in ConfigPaths, opened \in BOOLEAN :
    /\ call' = [op |-> "save_config", config |-> config,
                config_path |-> config_path, result |-> opened]
    /\ config_file' = IF opened
                      THEN [config_file EXCEPT ![config_path] = ObjectFile(config)]
                      ELSE config_file
    /\ UNCHANGED <<user_data, now, ops, config_cache, default_config, db_state>>

\* the file at a path is edited, replaced or removed outside the program
EditFile ==
  \E config_path \in ConfigPaths, file \in ConfigFiles :
    /\ file # config_file[config_path]
    /\ config_file' = [config_file EXCEPT ![config_path] = file]
    /\ UNCHANGED <<user_data, now, ops, call, config_cache, default_config, db_state>>

\* a new process imports the module: _config_cache = None
Restart ==
  /\ config_cache.loaded
  /\ config_cache' = NotLoaded
  /\ call' = [op |-> "init"]
  /\ UNCHANGED <<user_data, now, ops, config_file, default_config, db_state>>

\* the total score when the exchange menu was entered, carried from call to
\* call
OpeningTotal == IF call.op = "init" THEN total_score ELSE call.opening_total

\* ExchangeSystem._add_wish: a name, a cost of at least MIN_WISH_COST (a
\* lower one is asked again) and the confirmation
AddWish ==
  \E cost \in WishCosts, confirm \in BOOLEAN :
    /\ Len(wishes) < MaxWishes
    /\ cost >= MIN_WISH_COST
    /\ wishes' = IF confirm THEN Append(wishes, NewWish(cost, now)) ELSE wishes
    /\ call' = [op |-> "_add_wish", cost |-> cost, confirm |-> confirm,
                opening_total |-> OpeningTotal]
    /\ UNCHANGED <<user_data, now, ops, config_state, total_score>>

\* ExchangeSystem._redeem_wish: an id that get_wish_by_id does not find is
\* asked again, so the id answered last is 0 or the id of a row
RedeemWish ==
  \E wish_id \in {0} \cup DOMAIN wishes, confirm \in BOOLEAN :
    LET redeemed == RedeemWishResult(wishes, total_score, wish_id, confirm, now)
    IN /\ wishes' = redeemed.rows
       /\ call' = [op |-> "_redeem_wish", wish_id |-> wish_id,
                   total_score |-> total_score, before |-> wishes,
                   outcome |-> redeemed.outcome,
                   opening_total |-> OpeningTotal]
       /\ UNCHANGED <<user_data, now, ops, config_state, total_score>>

-----------------------------------------------------------------------------
(* Specifications *)

\* one behavior scored for a user
Init == InitUser(ScoreEnergies, ScoreWindows, BOOLEAN, {NoneTs})

Next == CalculateScore

Spec == Init /\ [][Next]_vars

\* one call of a calculator method that takes a behavior
PureInit == InitUser({0, 80 * EnergyUnit}, ScoreWindows, BOOLEAN, {NoneTs})

PureNext == CalculateScore \/ CalculateEnergyCost \/ ApplyBalanceMechanisms

PureSpec == PureInit /\ [][PureNext]_vars

\* a behavior scored, its cost computed and the cost applied
EdgeInit == InitUser({0, 25500, energy_max}, ScoreWindows, {TRUE}, {NoneTs})

EdgeNext == CalculateScore \/ CalculateEnergyCost \/ ApplyEnergyCost

EdgeSpec == EdgeInit /\ [][EdgeNext]_vars

\* the energy cost of one behavior
CostInit == InitUser(CostEnergies, ScoreWindows, {TRUE}, {NoneTs})

CostNext == CalculateEnergyCost

CostSpec == CostInit /\ [][CostNext]_vars

\* the configuration module of a process that has loaded nothing yet
ConfigInit ==
  /\ current_energy = 100 * EnergyUnit
  /\ recent_behaviors = <<>>
  /\ beginner_period = TRUE
  /\ last_record_ts = NoneTs
  /\ now = StartTime
  /\ ops = 0
  /\ call = [op |-> "init"]
  /\ config_cache = NotLoaded
  /\ config_file \in [ConfigPaths -> ConfigFiles]
  /\ default_config = DEFAULT_CONFIG
  /\ wishes = <<>>
  /\ total_score = 0

ConfigNext == LoadConfig \/ GetConfig \/ SaveConfig \/ EditFile \/ Restart

ConfigSpec == ConfigInit /\ [][ConfigNext]_vars

\* the exchange menu over a database with some total score and no wish yet
ExchangeInit ==
  /\ current_energy = 100 * EnergyUnit
  /\ recent_behaviors = <<>>
  /\ beginner_period = TRUE
  /\ last_record_ts = NoneTs
  /\ now = StartTime
  /\ ops = 0
  /\ call = [op |-> "init"]
  /\ config_file = [config_path \in ConfigPaths |-> AbsentFile]
  /\ config_cache = Loaded(DEFAULT_CONFIG)
  /\ default_config = DEFAULT_CONFIG
  /\ wishes = <<>>
  /\ total_score \in TotalScores

ExchangeNext == AddWish \/ RedeemWish \/ Tick

ExchangeSpec == ExchangeInit /\ [][ExchangeNext]_vars

\* a catalog lookup with sublevel inference
InferInit == InitUser({100 * EnergyUnit}, Windows, {TRUE}, {NoneTs})

InferNext == GetBehaviorInfo

InferSpec == InferInit /\ [][InferNext]_vars

\* the energy coefficient over the whole energy range
CoeffInit == InitUser(CoeffEnergies, {<<>>}, {TRUE}, {NoneTs})

CoeffNext == CalculateEnergyCoefficient

CoeffSpec == CoeffInit /\ [][CoeffNext]_vars

\* the combo coefficient and the balance mechanisms over the recent window
ComboInit == InitUser({100 * EnergyUnit}, Windows, {TRUE}, {NoneTs})

ComboNext == CalculateComboCoefficient

ComboSpec == ComboInit /\ [][ComboNext]_vars

BalanceInit == InitUser({100 * EnergyUnit}, Windows, {TRUE}, {NoneTs})

BalanceNext == ApplyBalanceMechanisms

BalanceSpec == BalanceInit /\ [][BalanceNext]_vars

\* the Energy Manager's operations on one user over time
EnergyInit ==
  InitUser({0, 100 * EnergyUnit, energy_max}, {<<>>}, {TRUE},
           {NoneTs, StartTime - 60 * 60, StartTime})

EnergyNext ==
  \/ UpdateEnergy
  \/ CalculateAutoRecovery
  \/ ApplyAutoRecovery
  \/ ResetDailyEnergy
  \/ GetEnergyStatus
  \/ Tick

EnergySpec == EnergyInit /\ [][EnergyNext]_vars

-----------------------------------------------------------------------------
(* Properties *)

\* the last behavior of the window, if any, is one of `levels`
LastIn(levels) ==
  recent_behaviors # <<>> /\ recent_behaviors[Len(recent_behaviors)] \in levels

\* how many behaviors of the window have one of `levels`
CountIn(levels) ==
  Cardinality({i \in 1..Len(recent_behaviors) : recent_behaviors[i] \in levels})

RecoveryLevels == {LR, LR1, LR2, LR3}

\* C1: starting with 0 <= current_energy <= energy_max, after any sequence of
\* update_energy, apply_auto_recovery and reset_daily_energy the energy is
\* still within [0, energy_max].
C1_EnergyWithinBounds == 0 <= current_energy /\ current_energy <= energy_max

\* an update whose unclamped result lies below 0, after an earlier operation
C1_Witness ==
  /\ call.op = "update_energy"
  /\ ops >= 2
  /\ call.before - call.energy_cost < 0
  /\ current_energy = 0

\* C2: calculate_score returns exactly 0 whenever current_energy is at or
\* below energy_zero_threshold, for every level, duration, mood, window and
\* beginner flag.
C2_ZeroScoreAtZeroEnergy ==
  (call.op = "calculate_score" /\ current_energy <= 0)
    => (~call.result.raised /\ call.result.value = BigZero)

\* a positive behavior of 10 minutes scored at energy 0 after a streak
C2_Witness ==
  /\ call.op = "calculate_score"
  /\ current_energy = 0
  /\ call.level = LS
  /\ call.duration = 10
  /\ recent_behaviors = <<LS, LS>>
  /\ beginner_period
  /\ call.result.value = BigZero

\* the product the final score is defined as, with the given combo coefficient
ScoreProduct(level, duration, mood, combo) ==
  LET info == BehaviorInfo(level, duration, mood, recent_behaviors)
      start == IF duration <= 5 THEN 12 ELSE 10
      novice == IF beginner_period THEN 12 ELSE 10
  IN BigMul(BigMul(Big(info.base_score_per_min * duration * start * novice),
                   EnergyCoefficient(current_energy)),
            combo)

\* C3: above the zero threshold calculate_score returns base_score_per_min *
\* duration * energy_coefficient * combo_coefficient * start_bonus *
\* novice_bonus, the start bonus being 1.2 exactly when duration <= 5 and the
\* novice bonus 1.2 exactly when beginner_period holds; level S, duration 10,
\* energy 80, empty window, not beginner gives 19.8.
C3_ScoreIsProduct ==
  (call.op = "calculate_score" /\ current_energy > 0 /\ call.level \in ValidLevels)
    => /\ ~call.result.raised
       /\ call.result.value =
            ScoreProduct(call.level, call.duration, call.mood,
                         ComboCoefficient(call.level, recent_behaviors))
       /\ (/\ call.level = LS
           /\ call.duration = 10
           /\ current_energy = 80 * EnergyUnit
           /\ recent_behaviors = <<>>
           /\ ~beginner_period)
          => BigMul(call.result.value, 10) = BigMul(ScoreOne, 198)

\* the worked example: S, 10 minutes, energy 80, empty window, not beginner
C3_Witness ==
  /\ call.op = "calculate_score"
  /\ call.level = LS
  /\ call.duration = 10
  /\ current_energy = 80 * EnergyUnit
  /\ recent_behaviors = <<>>
  /\ ~beginner_period
  /\ BigMul(call.result.value, 10) = BigMul(ScoreOne, 198)

\* the sublevel the duration alone gives
C4_ByDuration(duration) ==
  IF duration < 15 THEN LR1 ELSE IF duration <= 30 THEN LR2 ELSE LR3

\* C4: for an unresolved level R whose preceding behavior is not S or A (or
\* whose window is empty) the inferred sublevel depends only on the duration:
\* < 15 gives R1, 15..30 gives R2, > 30 gives R3, for every mood.
C4_DurationDecides ==
  (call.op = "get_behavior_info" /\ call.level = LR /\ ~LastIn({LS, LA}))
    => (~call.result.raised
        /\ call.result.inferred_sublevel = C4_ByDuration(call.duration))

\* mood 1 with 40 minutes gives R3, after a window that ends in B
C4_Witness ==
  /\ call.op = "get_behavior_info"
  /\ call.level = LR
  /\ call.mood = 1
  /\ call.duration = 40
  /\ LastIn({LB})
  /\ call.result.inferred_sublevel = LR3

\* one tier up, R3 staying R3
C5_OneTierUp(sublevel) ==
  IF sublevel = LR1 THEN LR2 ELSE LR3

\* C5: for an unresolved level R, a window ending in S or A gives the
\* sublevel one tier above the one the same call gives on an empty window
\* (R3 stays R3); a window ending in any other level gives no escalation,
\* whatever its earlier elements are.
C5_EscalationByLast ==
  (call.op = "get_behavior_info" /\ call.level = LR)
    => LET on_empty == InferRSublevel(LR, call.duration, call.mood, <<>>)
       IN /\ ~call.result.raised
          /\ LastIn({LS, LA})
               => call.result.inferred_sublevel = C5_OneTierUp(on_empty)
          /\ (recent_behaviors # <<>> /\ ~LastIn({LS, LA}))
               => call.result.inferred_sublevel = on_empty

\* 20 minutes after a window <<.., S, C>>: S is there but not last, R2 stays
C5_Witness ==
  /\ call.op = "get_behavior_info"
  /\ call.level = LR
  /\ call.duration = 20
  /\ Len(recent_behaviors) >= 2
  /\ recent_behaviors[Len(recent_behaviors) - 1] = LS
  /\ LastIn({LC})
  /\ call.result.inferred_sublevel = LR2

\* the rebound bonus applies to this call
ReboundApplies == call.level \in {LS, LA, LB} /\ LastIn({LC, LD})

\* the specialization bonus applies to this call
SameFieldApplies ==
  /\ CountIn({LS, LA, LB}) >= 1
  /\ \A i \in 1..Len(recent_behaviors) :
       recent_behaviors[i] \in {LS, LA, LB} => recent_behaviors[i] = call.level

\* C6: when neither the rebound nor the specialization bonus applies, the
\* combo coefficient is determined by the number of S/A/B behaviors anywhere
\* in the window: 0 gives 1.0, 1 gives 1.1, 2 gives 1.2, 3 or more gives 1.3.
C6_ComboByCount ==
  (call.op = "_calculate_combo_coefficient" /\ ~ReboundApplies /\ ~SameFieldApplies)
    => LET n == CountIn({LS, LA, LB})
       IN call.result = (IF n = 0 THEN 10000
                         ELSE IF n = 1 THEN 11000
                         ELSE IF n = 2 THEN 12000
                         ELSE 13000)

\* two positive behaviors separated by a negative one give 1.2
C6_Witness ==
  /\ call.op = "_calculate_combo_coefficient"
  /\ call.level = LB
  /\ recent_behaviors = <<LS, LC, LA>>
  /\ call.result = 12000

\* C7: when the behavior scored has a recovery level (R, R1, R2, R3) the
\* combo coefficient that enters its final score is 1.0 for every window.
C7_RecoveryComboIsOne ==
  (call.op = "calculate_score" /\ current_energy > 0
     /\ call.level \in RecoveryLevels)
    => (~call.result.raised
        /\ call.result.value =
             ScoreProduct(call.level, call.duration, call.mood, ComboUnit))

\* final_score * (0.8 if count >= 3) * (0.7 if short interval), in
\* hundred-thousandths
C8_Expected(final_score, same_behavior_count, is_short_frequency) ==
  final_score * 100 * (IF same_behavior_count >= 3 THEN 8 ELSE 10)
              * (IF is_short_frequency THEN 7 ELSE 10)

\* C8: apply_balance_mechanisms multiplies by 0.8 exactly when
\* same_behavior_count >= 3 and by 0.7 exactly when is_short_frequency holds,
\* multiplicatively: 100 with count 3 gives 80, with count >= 3 and the flag
\* 56, and with neither (and a non-recovery level) the score unchanged.
C8_RepeatAndFrequency ==
  call.op = "apply_balance_mechanisms"
    => LET expected == C8_Expected(call.final_score, call.same_behavior_count,
                                   call.is_short_frequency)
       IN /\ call.level \notin RecoveryLevels \cup {LR4}
               => call.result * 10 = expected
          /\ call.result * 10 \in {expected, (expected * 8) \div 10}
          /\ (/\ call.final_score = 1000
              /\ call.same_behavior_count = 3
              /\ call.level \notin RecoveryLevels \cup {LR4})
               => call.result = (IF call.is_short_frequency THEN 560000 ELSE 800000)

\* 100 with count 3 and the short-interval flag gives 56
C8_Witness ==
  /\ call.op = "apply_balance_mechanisms"
  /\ call.final_score = 1000
  /\ call.same_behavior_count = 3
  /\ call.is_short_frequency
  /\ call.level = LS
  /\ call.result = 560000

C10_EnergyCoefficientBands ==
  call.op = "_calculate_energy_coefficient"
    => /\ 0 <= current_energy /\ current_energy <= 120000
       /\ current_energy > 70000
            => call.result = 200000 + 2 * (current_energy - 70000)
       /\ (40000 < current_energy /\ current_energy <= 70000)
            => call.result = 170000 + (current_energy - 40000)
       /\ current_energy <= 40000 => call.result = 140000

\* at the breakpoint 40 the coefficient is the flat 0.7
C10_Witness ==
  /\ call.op = "_calculate_energy_coefficient"
  /\ current_energy = 40000
  /\ call.result = 140000

\* C11: calculate_energy_cost returns energy_cost_per_min * duration * m, m
\* being 0.8 exactly when duration <= 5 and 1 otherwise, times 1.2 exactly
\* when current_energy < 30 and the per-minute cost is negative; is_recovery
\* is true exactly when the per-minute cost is negative; also at or below
\* the zero threshold, where the score is gated to 0.
C11_EnergyCost ==
  (call.op = "calculate_energy_cost" /\ call.level \in ValidLevels)
    => LET per_min == BehaviorInfo(call.level, call.duration, call.mood,
                                   recent_behaviors).energy_cost_per_min
           m == IF call.duration <= 5 THEN 8 ELSE 10
           low == IF current_energy < 30000 /\ per_min < 0 THEN 12 ELSE 10
       IN /\ ~call.result.raised
          /\ call.result.value = per_min * call.duration * m * low
          /\ call.result.is_recovery = (per_min < 0)

\* 5 minutes of R at energy 0 on an empty window: -0.10 * 5 * 0.8 * 1.2
C11_Witness ==
  /\ call.op = "calculate_energy_cost"
  /\ current_energy = 0
  /\ call.level = LR
  /\ call.duration = 5
  /\ recent_behaviors = <<>>
  /\ call.result.value = -4800
  /\ call.result.is_recovery

\* clamp(x, 0, 120) in thousandths
C12_Clamp(x) == IF x < 0 THEN 0 ELSE IF x > 120000 THEN 120000 ELSE x

\* C12: update_energy(cost) sets current_energy to clamp(current_energy -
\* cost, 0, energy_max) and returns that value, for a cost of either sign: a
\* cost above the current energy leaves exactly 0, a recovery above the
\* headroom exactly energy_max.
C12_UpdateIsClamp ==
  call.op = "update_energy"
    => /\ call.result = C12_Clamp(call.before - call.energy_cost)
       /\ current_energy = call.result
       /\ call.energy_cost > call.before => current_energy = 0
       /\ -call.energy_cost > 120000 - call.before => current_energy = 120000

\* a recovery of 200 from below the maximum ends at exactly energy_max
C12_Witness ==
  /\ call.op = "update_energy"
  /\ call.energy_cost = -200000
  /\ call.before < 120000
  /\ call.before > 0
  /\ current_energy = 120000

\* C13: calculate_auto_recovery returns 0 without a last-activity timestamp,
\* 0 when at most 30 minutes have elapsed (30 included), and otherwise the
\* whole elapsed time times passive_recovery_rate (0.02 per minute).
C13_AutoRecoveryAmount ==
  call.op = "calculate_auto_recovery"
    => LET elapsed == call.at - last_record_ts
       IN /\ last_record_ts = NoneTs => call.result = 0
          /\ (last_record_ts # NoneTs /\ elapsed <= 1800) => call.result = 0
          /\ (last_record_ts # NoneTs /\ elapsed > 1800)
               => call.result * 3 = elapsed

\* 30.5 minutes after the last activity: 30.5 * 0.02 = 0.61
C13_Witness ==
  /\ call.op = "calculate_auto_recovery"
  /\ last_record_ts # NoneTs
  /\ call.at - last_record_ts = 1830
  /\ call.result = 610

\* C14: reset_daily_energy adds 56 when a last-activity timestamp is
\* recorded and 50 instead (not in addition) when none is, stores and
\* returns the result capped at energy_max; at energy_max it stays there.
C14_DailyReset ==
  call.op = "reset_daily_energy"
    => LET added == IF last_record_ts = NoneTs THEN 50000 ELSE 56000
           sum == call.before + added
       IN /\ call.result = (IF sum > 120000 THEN 120000 ELSE sum)
          /\ current_energy = call.result
          /\ call.before = 120000 => current_energy = 120000

\* a reset without a timestamp from an energy that 50 does not fill up
C14_Witness ==
  /\ call.op = "reset_daily_energy"
  /\ last_record_ts = NoneTs
  /\ call.before > 0
  /\ call.result = call.before + 50000
  /\ call.result < 120000

\* C15: apply_auto_recovery raises current_energy by exactly the amount
\* calculate_auto_recovery reports, capped at energy_max, and returns the
\* result; when the amount is 0 the energy is unchanged and returned.
C15_ApplyAutoRecovery ==
  call.op = "apply_auto_recovery"
    => LET amount == AutoRecovery(last_record_ts, call.at)
           sum == call.before + amount
       IN /\ call.result = (IF sum > 120000 THEN 120000 ELSE sum)
          /\ current_energy = call.result
          /\ amount = 0 => current_energy = call.before

\* a positive amount added below the cap
C15_Witness ==
  /\ call.op = "apply_auto_recovery"
  /\ AutoRecovery(last_record_ts, call.at) = 610
  /\ current_energy = call.before + 610
  /\ current_energy < 120000

\* the label of the band an energy lies in
C16_Band(energy) ==
  CASE energy > 90000 -> "abundant"
    [] energy <= 90000 /\ energy > 70000 -> "good"
    [] energy <= 70000 /\ energy > 50000 -> "fair"
    [] energy <= 50000 /\ energy > 30000 -> "low"
    [] energy <= 30000 -> "exhausted"

\* C16: get_energy_status maps every energy of [0, energy_max] to exactly
\* one of five labels by the bands > 90, > 70, > 50, > 30 and the rest,
\* modifies no user state, and so returns the same label when called twice
\* without a mutation in between.
C16_StatusLabel ==
  [][call'.op = "get_energy_status"
       => /\ call'.result = C16_Band(current_energy')
          /\ user_data' = user_data
          /\ call.op = "get_energy_status" => call'.result = call.result]_vars

\* the status asked at energy 30, the upper end of the lowest band
C16_Witness ==
  /\ call.op = "get_energy_status"
  /\ current_energy = 30000
  /\ call.result = "exhausted"

\* C17: scoring a behavior whose level is not one of S, A, B, C, D, R, R1,
\* R2, R3 ends in an unknown-level error and never in a numeric score, in
\* every user state, those at or below the zero threshold included.
C17_UnknownLevelRaises ==
  (call.op = "calculate_score" /\ call.level \in UnknownLevels)
    => call.result.raised

\* C18: calculate_score, calculate_energy_cost and apply_balance_mechanisms
\* never change current_energy, recent_behaviors, beginner_period or
\* last_record_ts, whether they return a value or fail on an unknown level.
C18_CalculatorIsPure ==
  [][call'.op \in {"calculate_score", "calculate_energy_cost",
                   "apply_balance_mechanisms"}
       => user_data' = user_data]_vars

\* a score refused for an unknown level on a user with history and energy
C18_Witness ==
  /\ call.op = "calculate_score"
  /\ call.level \in UnknownLevels
  /\ call.result.raised
  /\ current_energy = 80000
  /\ recent_behaviors # <<>>

\* C19: load_config never raises when the configuration file is absent or
\* is not valid JSON, and in both cases returns DEFAULT_CONFIG.
C19_FallsBackToDefaults ==
  (call.op = "load_config"
     /\ call.file.kind \in {"absent", "malformed", "undecodable"})
    => /\ ~call.result.raised
       /\ call.result.config = DEFAULT_CONFIG

\* a tunable out of its range: a negative energy_max
OutOfRange(config) ==
  /\ "global_config" \in DOMAIN config
  /\ "energy_max" \in DOMAIN config["global_config"]
  /\ config["global_config"]["energy_max"] < 0

\* C20: loading a configuration with an out-of-range tunable, a negative
\* energy_max for one, ends in an error at load time; such a configuration is
\* never accepted and handed to the Energy Manager or the Score Calculator.
C20_OutOfRangeRejected ==
  /\ (call.op = "load_config" /\ ~call.cached /\ call.file.kind = "object"
        /\ OutOfRange(call.file.value))
       => call.result.raised
  /\ config_cache.loaded => ~OutOfRange(config_cache.config)

\* the tunables of a global_config section that size the recent window, under
\* any of the names the documentation uses for it
C21_WindowTunables(section) ==
  DOMAIN section \cap {"retention_window", "recent_window", "window_size",
                        "recent_behaviors_limit", "max_recent_behaviors"}

\* C21: after any sequence of scored behaviors the recent window of the user
\* state holds no more entries than the configured retention window.
C21_WindowWithinRetention ==
  LET section == config_cache.config["global_config"]
  IN /\ C21_WindowTunables(section) # {}
     /\ \A key \in C21_WindowTunables(section) :
          Len(recent_behaviors) <= section[key]

\* the count table of C6, in ComboUnit
C22_ByCount ==
  LET n == CountIn({LS, LA, LB})
  IN IF n = 0 THEN 10000 ELSE IF n = 1 THEN 11000 ELSE IF n = 2 THEN 12000
     ELSE 13000

\* C22: the combo coefficient is multiplied by rebound_bonus (1.1) exactly
\* when the current level is S, A or B and the last element of the window is
\* C or D: not for a current level C, D or a recovery level, and not when a
\* C or D appears only earlier in the window.
C22_ReboundBonus ==
  call.op = "_calculate_combo_coefficient"
    => LET without == IF SameFieldApplies THEN (C22_ByCount * 115) \div 100
                      ELSE C22_ByCount
           rebound == call.result * 10 = without * 11
           none == call.result = without
       IN /\ (call.level \in {LS, LA, LB} /\ LastIn({LC, LD})) => rebound
          /\ call.level \notin {LS, LA, LB} => none
          /\ ~LastIn({LC, LD}) => none

\* a positive behavior after a window whose negative entry is not the last
C22_Witness ==
  /\ call.op = "_calculate_combo_coefficient"
  /\ call.level = LA
  /\ recent_behaviors = <<LC, LB>>
  /\ call.result = 11000

\* C23: the combo coefficient is multiplied by 1.15 exactly when the window
\* holds at least one S/A/B behavior and every S/A/B behavior in it has the
\* level of the current behavior; so never for a current level C, D or a
\* recovery level, and the bonus multiplies with the rebound bonus.
C23_SameFieldBonus ==
  call.op = "_calculate_combo_coefficient"
    => LET without == IF ReboundApplies THEN (C22_ByCount * 11) \div 10
                      ELSE C22_ByCount
       IN /\ SameFieldApplies => call.result * 100 = without * 115
          /\ ~SameFieldApplies => call.result = without
          /\ call.level \notin {LS, LA, LB} => call.result = C22_ByCount
          /\ (SameFieldApplies /\ ReboundApplies)
               => call.result * 1000 = C22_ByCount * 11 * 115

\* both bonuses at once: 1.1 * 1.1 * 1.15 = 1.3915
C23_Witness ==
  /\ call.op = "_calculate_combo_coefficient"
  /\ call.level = LS
  /\ recent_behaviors = <<LS, LD>>
  /\ call.result = 13915

\* C24: with duration 0 or an empty window, at every valid level and every
\* energy of [0, energy_max], calculate_score and calculate_energy_cost
\* return a number and do not fail; with duration 0 the score is 0 and the
\* energy delta is 0, and applying that delta leaves current_energy unchanged.
C24_EdgeCases ==
  /\ (call.op \in {"calculate_score", "calculate_energy_cost"}
        /\ call.level \in ValidLevels
        /\ (call.duration = 0 \/ recent_behaviors = <<>>))
       => /\ ~call.result.raised
          /\ (call.op = "calculate_score" /\ call.duration = 0)
               => call.result.value = BigZero
          /\ (call.op = "calculate_energy_cost" /\ call.duration = 0)
               => call.result.value = 0
  /\ (call.op = "update_energy" /\ call.duration = 0)
       => (call.energy_cost = 0 /\ current_energy = call.before)

\* the zero cost of a recovery of no duration applied at low energy
C24_Witness ==
  /\ call.op = "update_energy"
  /\ call.duration = 0
  /\ call.level = LR
  /\ recent_behaviors = <<>>
  /\ call.before = 25500
  /\ current_energy = 25500

\* C25: sublevel inference returns a given R1, R2 or R3 unchanged for every
\* duration, mood and window, and every level it returns for one of R, R1,
\* R2, R3 is one of R1, R2, R3.
C25_ResolvedUnchanged ==
  (call.op = "get_behavior_info" /\ call.level \in RecoveryLevels)
    => /\ ~call.result.raised
       /\ call.result.inferred_sublevel \in {LR1, LR2, LR3}
       /\ call.level # LR => call.result.inferred_sublevel = call.level

\* R1 given for 40 minutes right after an S behavior stays R1
C25_Witness ==
  /\ call.op = "get_behavior_info"
  /\ call.level = LR1
  /\ call.duration = 40
  /\ LastIn({LS})
  /\ call.result.inferred_sublevel = LR1

\* the tunables of global_config that a configuration object sets
C26_Mentioned(config) ==
  IF "global_config" \in DOMAIN config THEN DOMAIN config["global_config"]
  ELSE {}

\* C26: when the configuration file overrides only some tunables, every
\* tunable it does not mention keeps its default value in the configuration
\* load_config returns, so that every key the engine reads is there.
C26_DefaultsKept ==
  (call.op = "load_config" /\ ~call.cached /\ call.file.kind = "object"
     /\ ~call.result.raised)
    => LET section == call.result.config["global_config"]
       IN \A key \in DOMAIN global_config :
            /\ key \in DOMAIN section
            /\ key \notin C26_Mentioned(call.file.value)
                 => section[key] = global_config[key]

\* load_config and get_config
C27_ConfigCalls == {"load_config", "get_config"}

\* what a call returned is what `config` holds
C27_Returns(made, config) ==
  /\ ~made.result.raised
  /\ made.op = "load_config" => made.result.config = config
  /\ made.op = "get_config"
       => IF made.key \in DOMAIN config
          THEN made.result.found /\ made.result.value = config[made.key]
          ELSE ~made.result.found

\* C27: the configuration is loaded at most once per process: a load_config
\* or get_config call that is not the first of its process returns the
\* cached configuration of the first one, whatever path it is given and
\* whatever save_config has written since, and leaves DEFAULT_CONFIG as it is.
C27_LoadedOnce ==
  [][(/\ call'.op \in C27_ConfigCalls
      /\ config_file' = config_file
      /\ call.op \in C27_ConfigCalls \/ config_cache.loaded)
       => /\ config_cache.loaded
          /\ config_cache' = config_cache
          /\ C27_Returns(call', config_cache.config)
          /\ default_config' = default_config]_vars

\* C28: idle time is credited at most once: apply_auto_recovery called
\* several times in a row, with the same last-activity timestamp and the
\* energy below energy_max, adds in total no more than elapsed_minutes *
\* passive_recovery_rate for the time elapsed at the last call.
C28_IdleCreditedOnce ==
  (call.op = "apply_auto_recovery" /\ current_energy < 120000)
    => IF last_record_ts = NoneTs
       THEN current_energy = call.run_start
       ELSE (current_energy - call.run_start) * 3 <= call.at - last_record_ts

\* C29: a wish is redeemed only while its status is pending and the total
\* score is at least its cost; a wish already redeemed is never redeemed
\* again and its redeemed_at is never overwritten.
C29_RedeemedOnce ==
  [][\A id \in DOMAIN wishes :
       /\ wishes[id].status = "redeemed"
            => /\ wishes'[id].status = "redeemed"
               /\ wishes'[id].redeemed_at = wishes[id].redeemed_at
       /\ (wishes[id].status # "redeemed" /\ wishes'[id].status = "redeemed")
            => (wishes[id].status = "pending" /\ total_score >= wishes[id].cost)
       /\ (call'.op = "_redeem_wish" /\ call'.outcome = "redeemed"
             /\ call'.wish_id = id /\ call' # call)
            => call'.before[id].status = "pending"]_vars

\* the sum of the costs of the redeemed rows 1..n
RECURSIVE C30_RedeemedCost(_, _)
C30_RedeemedCost(rows, n) ==
  IF n = 0 THEN 0
  ELSE C30_RedeemedCost(rows, n - 1)
         + (IF rows[n].status = "redeemed" THEN rows[n].cost ELSE 0)

\* C30: redeeming a wish of cost c at total score T leaves T - c as the
\* total score available afterwards, so with no behavior logged the costs of
\* all redeemed wishes never add up to more than the total score held
\* before the first redemption.
C30_ScoreSpent ==
  /\ (call.op = "_redeem_wish" /\ call.outcome = "redeemed")
       => total_score = call.total_score - call.before[call.wish_id].cost
  /\ call.op \in {"_add_wish", "_redeem_wish"}
       => C30_RedeemedCost(wishes, Len(wishes)) <= call.opening_total

=============================================================================
